---- MODULE Spec2Model ----
(***************************************************************************)
(* gpuatop: src/main.rs.  A single sequential process that identifies the  *)
(* GPU vendor, checks that the vendor's monitoring tool is installed,      *)
(* installs it through the host's package manager when it is not, and     *)
(* then polls the tool once per second forever.                            *)
(*                                                                         *)
(* The host (which subprocesses can be spawned, how they exit, what they   *)
(* write) is the environment: every Command::output() call draws its       *)
(* outcome from a small set.  Every spawn, println! and sleep the process  *)
(* performs is appended to `trace`, in program order.                      *)
(***************************************************************************)
EXTENDS Integers, Sequences, FiniteSets, TLC

VARIABLES
    pc,               \* position of main: see PcValues
    gpu_type,         \* main's `gpu_type`        (<<>> before the let)
    top_exists,       \* main's `top_exists`      (<<>> before the let)
    package_manager,  \* main's `package_manager` (<<>> before the let)
    pm_idx,           \* identify_package_manager: index of the loop over package_managers
    ticks,            \* number of poll-loop iterations completed
    panic_msg,        \* message of the panic that ended the process ("" while alive)
    exit_code,        \* process exit status (<<>> while alive)
    trace             \* every spawn / println / sleep performed so far

vars == <<pc, gpu_type, top_exists, package_manager, pm_idx, ticks,
          panic_msg, exit_code, trace>>

-----------------------------------------------------------------------------
(* Bounds of the model *)

\* poll-loop iterations explored
MaxTicks == 2
\* tokens concatenated to form one lspci output
MaxTokens == 2

-----------------------------------------------------------------------------
(* Types of src/main.rs *)

GpuType == {"Nvidia", "Amd", "Intel"}

PackageManager == {"Apt", "Pacman", "Yum"}

\* fault: the vec! lists pacman before apt
package_managers_reordered == <<"pacman", "apt", "yum">>

\* the vec! identify_package_manager iterates, in its order
package_managers == <<"apt", "pacman", "yum">>

\* exit status a panicking Rust process ends with
PanicExitCode == 101

\* Duration::from_secs(1)
SleepSecs == 1

None == << >>
Some(x) == <<x>>

-----------------------------------------------------------------------------
(* std::str::from_utf8 on captured stdout (a sequence of bytes 0..255).   *)

\* length of the UTF-8 sequence a lead byte announces (0: not a lead byte)
Utf8Width(b) ==
    IF b < 128 THEN 1
    ELSE IF b >= 194 /\ b <= 223 THEN 2
    ELSE IF b >= 224 /\ b <= 239 THEN 3
    ELSE IF b >= 240 /\ b <= 244 THEN 4
    ELSE 0

IsCont(b) == b >= 128 /\ b <= 191

\* the well-formed byte ranges of the second byte, by lead byte
SecondOk(lead, b) ==
    CASE lead = 224 -> b >= 160 /\ b <= 191
      [] lead = 237 -> b >= 128 /\ b <= 159
      [] lead = 240 -> b >= 144 /\ b <= 191
      [] lead = 244 -> b >= 128 /\ b <= 143
      [] OTHER      -> IsCont(b)

RECURSIVE Utf8ValidFrom(_, _)
Utf8ValidFrom(bytes, i) ==
    IF i > Len(bytes) THEN TRUE
    ELSE LET w == Utf8Width(bytes[i]) IN
         /\ w > 0
         /\ i + w - 1 <= Len(bytes)
         /\ w >= 2 => SecondOk(bytes[i], bytes[i + 1])
         /\ \A k \in 2..(w - 1) : IsCont(bytes[i + k])
         /\ Utf8ValidFrom(bytes, i + w)

\* str::from_utf8(..) is Ok
Utf8Valid(bytes) == Utf8ValidFrom(bytes, 1)

\* the code point encoded at bytes[i], of width w
CodePointAt(bytes, i, w) ==
    CASE w = 1 -> bytes[i]
      [] w = 2 -> (bytes[i] - 192) * 64 + (bytes[i + 1] - 128)
      [] w = 3 -> (bytes[i] - 224) * 4096 + (bytes[i + 1] - 128) * 64
                  + (bytes[i + 2] - 128)
      [] w = 4 -> (bytes[i] - 240) * 262144 + (bytes[i + 1] - 128) * 4096
                  + (bytes[i + 2] - 128) * 64 + (bytes[i + 3] - 128)

RECURSIVE Utf8DecodeFrom(_, _)
Utf8DecodeFrom(bytes, i) ==
    IF i > Len(bytes) THEN << >>
    ELSE LET w == Utf8Width(bytes[i]) IN
         <<CodePointAt(bytes, i, w)>> \o Utf8DecodeFrom(bytes, i + w)

\* the &str of a valid byte sequence, as its sequence of chars (code points)
from_utf8(bytes) == Utf8DecodeFrom(bytes, 1)

\* char::is_whitespace (the Unicode White_Space property)
IsWhitespace(c) ==
    \/ c >= 9 /\ c <= 13
    \/ c \in {32, 133, 160, 5760, 8232, 8233, 8239, 8287, 12288}
    \/ c >= 8192 /\ c <= 8202

RECURSIVE TrimStart(_)
TrimStart(s) ==
    IF s = << >> THEN s
    ELSE IF IsWhitespace(Head(s)) THEN TrimStart(Tail(s))
    ELSE s

RECURSIVE TrimEnd(_)
TrimEnd(s) ==
    IF s = << >> THEN s
    ELSE IF IsWhitespace(s[Len(s)]) THEN TrimEnd(SubSeq(s, 1, Len(s) - 1))
    ELSE s

\* str::trim
trim(s) == TrimEnd(TrimStart(s))

\* str::contains(pattern): pattern occurs as a contiguous substring
contains(s, pat) ==
    \E i \in 1..(Len(s) - Len(pat) + 1) : SubSeq(s, i, i + Len(pat) - 1) = pat

\* the string literals identify_gpu_card searches for, as chars
StrNVIDIA == <<78, 86, 73, 68, 73, 65>>
StrAMD == <<65, 77, 68>>
StrIntel == <<73, 110, 116, 101, 108>>

-----------------------------------------------------------------------------
(* Command lines the program builds *)

\* identify_gpu_card: Command::new("lspci").arg("-v")
lspci_argv == <<"lspci", "-v">>

\* identify_package_manager: Command::new("which").arg(package_manager)
which_pm_argv(i) == <<"which", package_managers[i]>>

\* identify_package_manager: the match on the manager whose lookup succeeded
pm_of_name(name) ==
    CASE name = "apt"    -> "Apt"
      [] name = "pacman" -> "Pacman"
      [] name = "yum"    -> "Yum"

\* fault: the Intel arm was pasted from the Amd arm and kept "radeontop"
check_top_argv_pasted(g) ==
    CASE g = "Nvidia" -> <<"which", "nvidia-smi">>
      [] g = "Amd"    -> <<"which", "radeontop">>
      [] g = "Intel"  -> <<"which", "radeontop">>

\* check_top_exists_local: the lookup spawned for each vendor
check_top_argv(g) ==
    CASE g = "Nvidia" -> <<"which", "nvidia-smi">>
      [] g = "Amd"    -> <<"which", "radeontop">>
      [] g = "Intel"  -> <<"which", "intel_gpu_top">>

\* fault: the Intel/Yum arm was pasted from the Amd arms and kept "radeontop"
install_argv_pasted(g, pm) ==
    LET pkg == CASE g = "Nvidia" -> "nvidia-smi"
                 [] g = "Amd"    -> "radeontop"
                 [] g = "Intel"  -> IF pm = "Yum" THEN "radeontop"
                                    ELSE "intel_gpu_top"
    IN CASE pm = "Apt"    -> <<"apt", "install", "-y", pkg>>
         [] pm = "Pacman" -> <<"pacman", "-S", "--noconfirm", pkg>>
         [] pm = "Yum"    -> <<"yum", "install", "-y", pkg>>

\* install_top_for_gpu_to: the command spawned in each of the nine arms
install_argv(g, pm) ==
    CASE g = "Nvidia" ->
           (CASE pm = "Apt"    -> <<"apt", "install", "-y", "nvidia-smi">>
              [] pm = "Pacman" -> <<"pacman", "-S", "--noconfirm", "nvidia-smi">>
              [] pm = "Yum"    -> <<"yum", "install", "-y", "nvidia-smi">>)
      [] g = "Amd" ->
           (CASE pm = "Apt"    -> <<"apt", "install", "-y", "radeontop">>
              [] pm = "Pacman" -> <<"pacman", "-S", "--noconfirm", "radeontop">>
              [] pm = "Yum"    -> <<"yum", "install", "-y", "radeontop">>)
      [] g = "Intel" ->
           (CASE pm = "Apt"    -> <<"apt", "install", "-y", "intel_gpu_top">>
              [] pm = "Pacman" -> <<"pacman", "-S", "--noconfirm", "intel_gpu_top">>
              [] pm = "Yum"    -> <<"yum", "install", "-y", "intel_gpu_top">>)

\* fault: the Amd arm of the loop was pasted from the Intel arm
poll_argv_pasted(g) ==
    CASE g = "Nvidia" -> <<"nvidia-smi", "--query-gpu=utilization.gpu",
                           "--format=csv,noheader,nounits">>
      [] g = "Amd"    -> <<"intel_gpu_top", "-d -">>
      [] g = "Intel"  -> <<"intel_gpu_top", "-s 1", "-o -">>

\* main's loop: the command spawned each tick (one element per .arg call)
poll_argv(g) ==
    CASE g = "Nvidia" -> <<"nvidia-smi", "--query-gpu=utilization.gpu",
                           "--format=csv,noheader,nounits">>
      [] g = "Amd"    -> <<"radeontop", "-d -">>
      [] g = "Intel"  -> <<"intel_gpu_top", "-s 1", "-o -">>

\* fault: the chain tests "AMD" before "NVIDIA"
classify_gpu_amd_first(output) ==
    IF contains(output, StrAMD) THEN "Amd"
    ELSE IF contains(output, StrNVIDIA) THEN "Nvidia"
    ELSE IF contains(output, StrIntel) THEN "Intel"
    ELSE "GPU not found"

\* identify_gpu_card: the if / else-if chain over the decoded lspci output
classify_gpu(output) ==
    IF contains(output, StrNVIDIA) THEN "Nvidia"
    ELSE IF contains(output, StrAMD) THEN "Amd"
    ELSE IF contains(output, StrIntel) THEN "Intel"
    ELSE "GPU not found"

\* ExitStatus::success
success(res) == res.code = 0

-----------------------------------------------------------------------------
(* The environment: outcomes of Command::output() *)

ExitCodes == {0, 1}

\* the Err of Command::output(): the binary could not be executed
SpawnFailed == [spawned |-> FALSE, code |-> -1, stdout |-> << >>]

\* the Ok of Command::output(): exit status and captured stdout
Exited(c, out) == [spawned |-> TRUE, code |-> c, stdout |-> out]

\* fragments of lspci output, as bytes: "NVIDIA", "AMD", "Intel", "AM", "D",
\* and a byte that is not UTF-8
PciTokens == {StrNVIDIA, StrAMD, StrIntel, <<65, 77>>, <<68>>, <<255>>}

RECURSIVE TextsOfLen(_)
TextsOfLen(n) ==
    IF n = 0 THEN {<< >>}
    ELSE {t \o k : t \in TextsOfLen(n - 1), k \in PciTokens}

PciTexts == UNION {TextsOfLen(n) : n \in 0..MaxTokens}

\* stdout of the monitoring tool: U+00A0 "9" "\n" (a two-byte char and
\* whitespace at both ends), "", and 0xFF "\n" (not UTF-8)
MonitorOutputs == {<<194, 160, 57, 10>>, << >>, <<255, 10>>}

LookupOutcomes == {SpawnFailed} \cup {Exited(c, << >>) : c \in ExitCodes}

InstallOutcomes == {SpawnFailed} \cup {Exited(c, << >>) : c \in ExitCodes}

\* lspci's exit status is never read by the program: only exit 0 is drawn
LspciOutcomes == {SpawnFailed} \cup {Exited(0, t) : t \in PciTexts}

MonitorOutcomes ==
    {SpawnFailed} \cup {Exited(c, o) : c \in ExitCodes, o \in MonitorOutputs}

-----------------------------------------------------------------------------
(* Events appended to trace *)

Spawn(argv, res) == [kind |-> "spawn", argv |-> argv, res |-> res]

\* println! of a format string with one string argument ("" when it has none)
Println(fmt, arg) == [kind |-> "println", fmt |-> fmt, arg |-> arg]

\* println!("GPU Utilization: {}%", ..) with the chars substituted
PrintUtilization(text) ==
    [kind |-> "println", fmt |-> "GPU Utilization: {}%", text |-> text]

Sleep == [kind |-> "sleep", secs |-> SleepSecs]

BoolStr(b) == IF b THEN "true" ELSE "false"

-----------------------------------------------------------------------------
(* The process *)

PcValues == {"identify_gpu", "check_top", "identify_pm", "install",
             "poll", "sleep", "panicked"}

Init ==
    /\ pc = "identify_gpu"
    /\ gpu_type = None
    /\ top_exists = None
    /\ package_manager = None
    /\ pm_idx = 1
    /\ ticks = 0
    /\ panic_msg = ""
    /\ exit_code = None
    /\ trace = << >>

\* a panic (an .expect on Err, or panic!) unwinds main and ends the process
Panic(msg) ==
    /\ pc' = "panicked"
    /\ panic_msg' = msg
    /\ exit_code' = Some(PanicExitCode)

Panicked(msg) == [kind |-> "panic", val |-> msg]
Returned(v) == [kind |-> "return", val |-> v]
Continue == [kind |-> "continue", val |-> ""]

\* fault: the vendor strings are searched in the raw bytes, without the
\* from_utf8 check
identify_gpu_card_result_raw(res) ==
    IF ~res.spawned THEN Panicked("Failed to execute command")
    ELSE LET g == classify_gpu(res.stdout) IN
         IF g \in GpuType THEN Returned(g) ELSE Panicked("GPU not found")

\* identify_gpu_card() given what Command::output() gave: .expect, from_utf8
\* .expect, then the classification (its else arm panics)
identify_gpu_card_result(res) ==
    IF ~res.spawned THEN Panicked("Failed to execute command")
    ELSE IF ~Utf8Valid(res.stdout) THEN Panicked("Not UTF-8")
    ELSE LET g == classify_gpu(from_utf8(res.stdout)) IN
         IF g \in GpuType THEN Returned(g) ELSE Panicked("GPU not found")

\* fault: a lookup that cannot be spawned counts as "not found"
\* (.map(|o| o.status.success()).unwrap_or(false))
check_top_exists_local_result_or_absent(res) ==
    Returned(res.spawned /\ res.code = 0)

\* fault: a lookup that exits non-zero is treated as an error
check_top_exists_local_result_strict(res) ==
    IF ~res.spawned \/ res.code # 0 THEN Panicked("Failed to execute command")
    ELSE Returned(TRUE)

\* check_top_exists_local() given what Command::output() gave
check_top_exists_local_result(res) ==
    IF ~res.spawned THEN Panicked("Failed to execute command")
    ELSE Returned(success(res))

\* fault: the install block is entered unconditionally
must_install_always(exists) == TRUE

\* fault: the condition lost its negation
must_install_inverted(exists) == exists

\* main line 182: the condition of the install block
must_install(exists) == ~exists

\* fault: falling out of the loop returns the last manager instead of panicking
identify_package_manager_step_fallback(i, res) ==
    IF ~res.spawned THEN Panicked("Failed to execute command")
    ELSE IF res.code = 0 THEN Returned(pm_of_name(package_managers[i]))
    ELSE IF i < Len(package_managers) THEN Continue
    ELSE Returned("Yum")

\* one iteration i of identify_package_manager's for loop, and the panic
\* after the loop when i was the last iteration
identify_package_manager_step(i, res) ==
    IF ~res.spawned THEN Panicked("Failed to execute command")
    ELSE IF success(res) THEN Returned(pm_of_name(package_managers[i]))
    ELSE IF i < Len(package_managers) THEN Continue
    ELSE Panicked("Package manager not found")

\* install_top_for_gpu_to() given what Command::output() gave: only the
\* .expect looks at it, the Output itself is dropped
install_top_for_gpu_to_result(res) ==
    IF ~res.spawned THEN Panicked("Failed to execute command")
    ELSE Returned("()")

\* fault: the stdout is decoded with from_utf8_lossy (U+FFFD, no panic)
poll_result_lossy(res) ==
    IF ~res.spawned THEN Panicked("Failed to execute command")
    ELSE IF ~Utf8Valid(res.stdout) THEN Returned(<<65533>>)
    ELSE Returned(trim(from_utf8(res.stdout)))

\* fault: a monitoring tool that cannot be spawned counts as empty output
\* and the loop goes on to the next tick
poll_result_skip(res) ==
    IF ~res.spawned THEN Returned(<< >>)
    ELSE IF ~Utf8Valid(res.stdout) THEN Panicked("Not UTF-8")
    ELSE Returned(trim(from_utf8(res.stdout)))

\* fault: a monitoring tool that exits non-zero is treated as an error
poll_result_checked(res) ==
    IF ~res.spawned \/ res.code # 0 THEN Panicked("Failed to execute command")
    ELSE IF ~Utf8Valid(res.stdout) THEN Panicked("Not UTF-8")
    ELSE Returned(trim(from_utf8(res.stdout)))

\* one iteration of main's loop up to the println!, given what
\* Command::output() gave: the chars printed, or the panic
poll_result(res) ==
    IF ~res.spawned THEN Panicked("Failed to execute command")
    ELSE IF ~Utf8Valid(res.stdout) THEN Panicked("Not UTF-8")
    ELSE Returned(trim(from_utf8(res.stdout)))

\* main, lines 174-176: println, identify_gpu_card(), println
identify_gpu_card ==
    /\ pc = "identify_gpu"
    /\ \E res \in LspciOutcomes :
         LET begun == trace \o <<Println("Identifying GPU type...", ""),
                                 Spawn(lspci_argv, res)>>
             r == identify_gpu_card_result(res)
         IN
         IF r.kind = "panic" THEN
            /\ Panic(r.val)
            /\ trace' = begun
            /\ UNCHANGED gpu_type
         ELSE
            /\ gpu_type' = Some(r.val)
            /\ trace' = Append(begun, Println("GPU type: {:?}", r.val))
            /\ pc' = "check_top"
            /\ UNCHANGED <<panic_msg, exit_code>>
    /\ UNCHANGED <<top_exists, package_manager, pm_idx, ticks>>

\* main, lines 178-183: println, check_top_exists_local(gpu_type), println,
\* and the branch on !top_exists (with the println that opens its block)
check_top_exists_local ==
    /\ pc = "check_top"
    /\ \E res \in LookupOutcomes :
         LET begun == trace \o <<Println("Checking if top exists locally...", ""),
                                 Spawn(check_top_argv(gpu_type[1]), res)>>
             r == check_top_exists_local_result(res)
         IN
         IF r.kind = "panic" THEN
            /\ Panic(r.val)
            /\ trace' = begun
            /\ UNCHANGED top_exists
         ELSE
            /\ top_exists' = Some(r.val)
            /\ UNCHANGED <<panic_msg, exit_code>>
            /\ IF must_install(r.val) THEN
                  /\ pc' = "identify_pm"
                  /\ trace' = begun \o
                       <<Println("Top exists locally: {}", BoolStr(r.val)),
                         Println("Identifying package manager...", "")>>
               ELSE
                  /\ pc' = "poll"
                  /\ trace' = Append(begun,
                       Println("Top exists locally: {}", BoolStr(r.val)))
    /\ UNCHANGED <<gpu_type, package_manager, pm_idx, ticks>>

\* identify_package_manager, one iteration of its for loop (lines 23-37);
\* falling out of the loop panics (line 39); a return continues main with
\* the two println of lines 185 and 187
identify_package_manager ==
    /\ pc = "identify_pm"
    /\ \E res \in LookupOutcomes :
         LET begun == Append(trace, Spawn(which_pm_argv(pm_idx), res))
             r == identify_package_manager_step(pm_idx, res)
         IN
         CASE r.kind = "panic" ->
                /\ Panic(r.val)
                /\ trace' = begun
                /\ UNCHANGED <<package_manager, pm_idx>>
           [] r.kind = "return" ->
                /\ package_manager' = Some(r.val)
                /\ trace' = begun \o
                     <<Println("Package manager: {:?}", r.val),
                       Println("Installing top for GPU type...", "")>>
                /\ pc' = "install"
                /\ UNCHANGED <<pm_idx, panic_msg, exit_code>>
           [] r.kind = "continue" ->
                /\ pm_idx' = pm_idx + 1
                /\ trace' = begun
                /\ UNCHANGED <<pc, package_manager, panic_msg, exit_code>>
    /\ UNCHANGED <<gpu_type, top_exists, ticks>>

\* fault: after the install main goes back to the presence check
install_top_for_gpu_to_recheck ==
    /\ pc = "install"
    /\ \E res \in InstallOutcomes :
         LET r == install_top_for_gpu_to_result(res) IN
         /\ trace' = Append(trace,
                Spawn(install_argv(gpu_type[1], package_manager[1]), res))
         /\ IF r.kind = "panic" THEN
               Panic(r.val)
            ELSE
               /\ pc' = "check_top"
               /\ UNCHANGED <<panic_msg, exit_code>>
    /\ UNCHANGED <<gpu_type, top_exists, package_manager, pm_idx, ticks>>

\* main line 188: install_top_for_gpu_to(gpu_type, package_manager), then
\* control reaches the loop
install_top_for_gpu_to ==
    /\ pc = "install"
    /\ \E res \in InstallOutcomes :
         LET r == install_top_for_gpu_to_result(res) IN
         /\ trace' = Append(trace,
                Spawn(install_argv(gpu_type[1], package_manager[1]), res))
         /\ IF r.kind = "panic" THEN
               Panic(r.val)
            ELSE
               /\ pc' = "poll"
               /\ UNCHANGED <<panic_msg, exit_code>>
    /\ UNCHANGED <<gpu_type, top_exists, package_manager, pm_idx, ticks>>

\* fault: the loop body has no thread::sleep, the next tick starts at once
poll_no_sleep ==
    /\ pc = "poll"
    /\ ticks < MaxTicks
    /\ \E res \in MonitorOutcomes :
         LET begun == Append(trace, Spawn(poll_argv(gpu_type[1]), res))
             r == poll_result(res)
         IN
         IF r.kind = "panic" THEN
            /\ Panic(r.val)
            /\ trace' = begun
            /\ UNCHANGED ticks
         ELSE
            /\ trace' = Append(begun, PrintUtilization(r.val))
            /\ ticks' = ticks + 1
            /\ UNCHANGED <<pc, panic_msg, exit_code>>
    /\ UNCHANGED <<gpu_type, top_exists, package_manager, pm_idx>>

\* main's loop body up to the sleep call (lines 192-213): spawn the tool and
\* wait for it, decode its stdout, print the line, start sleeping
poll ==
    /\ pc = "poll"
    /\ ticks < MaxTicks
    /\ \E res \in MonitorOutcomes :
         LET begun == Append(trace, Spawn(poll_argv(gpu_type[1]), res))
             r == poll_result(res)
         IN
         IF r.kind = "panic" THEN
            /\ Panic(r.val)
            /\ trace' = begun
         ELSE
            /\ trace' = begun \o <<PrintUtilization(r.val), Sleep>>
            /\ pc' = "sleep"
            /\ UNCHANGED <<panic_msg, exit_code>>
    /\ UNCHANGED <<gpu_type, top_exists, package_manager, pm_idx, ticks>>

\* fault: the loop body ends in a break, so main returns after one tick
sleep_returns_break ==
    /\ pc = "sleep"
    /\ pc' = "returned"
    /\ ticks' = ticks + 1
    /\ exit_code' = Some(0)
    /\ UNCHANGED <<gpu_type, top_exists, package_manager, pm_idx,
                   panic_msg, trace>>

\* thread::sleep returns and the loop starts its next iteration
sleep_returns ==
    /\ pc = "sleep"
    /\ pc' = "poll"
    /\ ticks' = ticks + 1
    /\ UNCHANGED <<gpu_type, top_exists, package_manager, pm_idx,
                   panic_msg, exit_code, trace>>

Next ==
    \/ identify_gpu_card
    \/ check_top_exists_local
    \/ identify_package_manager
    \/ install_top_for_gpu_to
    \/ poll
    \/ sleep_returns

Spec == Init /\ [][Next]_vars

\* The process is never descheduled for good: a monitoring subprocess that was
\* spawned returns, and thread::sleep returns.
FairSpec == Spec /\ WF_vars(poll) /\ WF_vars(sleep_returns)

TypeOK ==
    /\ pc \in PcValues
    /\ gpu_type \in {None} \cup {Some(g) : g \in GpuType}
    /\ top_exists \in {None, Some(TRUE), Some(FALSE)}
    /\ package_manager \in {None} \cup {Some(m) : m \in PackageManager}
    /\ pm_idx \in 1..Len(package_managers)
    /\ ticks \in 0..MaxTicks
    /\ exit_code \in {None, Some(PanicExitCode)}

-----------------------------------------------------------------------------
(* Reading the trace *)

ToolBinaries == {"nvidia-smi", "radeontop", "intel_gpu_top"}
ManagerBinaries == {"apt", "pacman", "yum"}

IsSpawn(e) == e.kind = "spawn"
\* the PCI enumeration
IsLspci(e) == IsSpawn(e) /\ e.argv[1] = "lspci"
\* the search-path lookup of a monitoring tool
IsPresenceCheck(e) == IsSpawn(e) /\ e.argv[1] = "which" /\ e.argv[2] \in ToolBinaries
\* the search-path lookup of a package manager
IsPmProbe(e) == IsSpawn(e) /\ e.argv[1] = "which" /\ e.argv[2] \in ManagerBinaries
\* a package manager run
IsInstall(e) == IsSpawn(e) /\ e.argv[1] \in ManagerBinaries
\* a monitoring tool run
IsMonitor(e) == IsSpawn(e) /\ e.argv[1] \in ToolBinaries
IsUtilizationLine(e) == e.kind = "println" /\ e.fmt = "GPU Utilization: {}%"
IsSleep(e) == e.kind = "sleep"

ExitedNonZero(e) == e.res.spawned /\ e.res.code # 0
ExitedZero(e) == e.res.spawned /\ e.res.code = 0

\* the events after position i
After(i) == SubSeq(trace, i + 1, Len(trace))
SomeEvent(seq, P(_)) == \E k \in DOMAIN seq : P(seq[k])
EveryEvent(seq, P(_)) == \A k \in DOMAIN seq : P(seq[k])

-----------------------------------------------------------------------------
(* Claims *)

\* C1: when the installer subprocess is spawned and exits non-zero, the run
\* ends there with a fatal error and no monitoring tool is ever spawned.
\* (The code drops the installer's exit status, so this does not hold.)
C1_InstallFailureIsFatal ==
    \A i \in DOMAIN trace :
        (IsInstall(trace[i]) /\ ExitedNonZero(trace[i]))
        => /\ pc = "panicked"
           /\ ~SomeEvent(After(i), IsMonitor)

\* C2: the package-manager probe and the installer run only if the presence
\* check returned false; when the presence lookup exits 0 there is no probe
\* and no install anywhere in the run, and every subprocess after the
\* presence check is a poll of the monitoring tool.
C2_ProbeAndInstallOnlyIfAbsent ==
    \A i \in DOMAIN trace :
        /\ (IsPmProbe(trace[i]) \/ IsInstall(trace[i]))
           => /\ top_exists = Some(FALSE)
              /\ \E j \in 1..(i - 1) :
                     IsPresenceCheck(trace[j]) /\ ExitedNonZero(trace[j])
        /\ (IsPresenceCheck(trace[i]) /\ ExitedZero(trace[i]))
           => /\ ~SomeEvent(trace, IsPmProbe) /\ ~SomeEvent(trace, IsInstall)
              /\ \A j \in (i + 1)..Len(trace) :
                     IsSpawn(trace[j]) => IsMonitor(trace[j])

\* C2 witness: vendor Intel, tool present, and the first poll has been spawned
C2_Witness ==
    /\ gpu_type = Some("Intel")
    /\ top_exists = Some(TRUE)
    /\ SomeEvent(trace, IsMonitor)

\* the decoded lspci output, once identify_gpu_card has run and decoded it
PciText == from_utf8(trace[2].res.stdout)

\* C3: vendor classification checks NVIDIA, then AMD, then Intel, wherever
\* the substrings occur: Nvidia if the text contains "NVIDIA", otherwise Amd
\* if it contains "AMD", otherwise Intel if it contains "Intel".
C3_VendorPriorityOrder ==
    gpu_type # None =>
        /\ contains(PciText, StrNVIDIA) => gpu_type = Some("Nvidia")
        /\ (~contains(PciText, StrNVIDIA) /\ contains(PciText, StrAMD))
           => gpu_type = Some("Amd")
        /\ (~contains(PciText, StrNVIDIA) /\ ~contains(PciText, StrAMD)
              /\ contains(PciText, StrIntel))
           => gpu_type = Some("Intel")

\* C3 witness: the text is "AMD" followed by "NVIDIA" and Nvidia was chosen
C3_Witness ==
    /\ gpu_type = Some("Nvidia")
    /\ trace[2].res.stdout = StrAMD \o StrNVIDIA

\* C4: if the `which` of the presence check cannot be spawned, the run
\* aborts there with "Failed to execute command" (ToolExecutionFailed): no
\* presence value is produced and no probe, install or poll follows.
C4_LookupSpawnFailureAborts ==
    \A i \in DOMAIN trace :
        (IsPresenceCheck(trace[i]) /\ ~trace[i].res.spawned)
        => /\ pc = "panicked"
           /\ panic_msg = "Failed to execute command"
           /\ exit_code = Some(PanicExitCode)
           /\ top_exists = None
           /\ ~SomeEvent(After(i), IsSpawn)

\* C4 witness: the presence lookup failed to spawn
C4_Witness ==
    \E i \in DOMAIN trace : IsPresenceCheck(trace[i]) /\ ~trace[i].res.spawned

\* C5: when the presence lookup is spawned, tool_present is true exactly
\* when it exited 0, and a non-zero exit produces false without any abort:
\* the run goes on to the package-manager identification.
C5_PresenceIsExitStatus ==
    \A i \in DOMAIN trace :
        (IsPresenceCheck(trace[i]) /\ trace[i].res.spawned)
        => /\ top_exists = Some(trace[i].res.code = 0)
           /\ ~SomeEvent(After(i), IsSpawn) => pc # "panicked"
           /\ ExitedNonZero(trace[i]) /\ ~SomeEvent(After(i), IsSpawn)
              => pc = "identify_pm" /\ panic_msg = ""

\* C5 witness: the lookup exited non-zero and the run continues
C5_Witness ==
    /\ top_exists = Some(FALSE)
    /\ pc = "identify_pm"
    /\ \E i \in DOMAIN trace :
           IsPresenceCheck(trace[i]) /\ ExitedNonZero(trace[i])

\* the command line the interface table gives for a manager and a package
PackageOf(g) ==
    CASE g = "Nvidia" -> "nvidia-smi"
      [] g = "Amd"    -> "radeontop"
      [] g = "Intel"  -> "intel_gpu_top"

ExpectedInstallArgv(pm, pkg) ==
    CASE pm = "Apt"    -> <<"apt", "install", "-y", pkg>>
      [] pm = "Pacman" -> <<"pacman", "-S", "--noconfirm", pkg>>
      [] pm = "Yum"    -> <<"yum", "install", "-y", pkg>>

\* C6: for every (vendor, manager) pair the installer spawns exactly
\* `apt install -y <pkg>` / `pacman -S --noconfirm <pkg>` /
\* `yum install -y <pkg>` with the vendor's package, as one subprocess whose
\* binary is the manager whose lookup succeeded.
C6_InstallCommandDetermined ==
    \A i \in DOMAIN trace :
        IsInstall(trace[i])
        => /\ gpu_type # None /\ package_manager # None
           /\ trace[i].argv =
                ExpectedInstallArgv(package_manager[1], PackageOf(gpu_type[1]))
           /\ \A j \in DOMAIN trace : IsInstall(trace[j]) => j = i
           /\ \E j \in 1..(i - 1) :
                  /\ IsPmProbe(trace[j]) /\ ExitedZero(trace[j])
                  /\ trace[j].argv[2] = trace[i].argv[1]

\* C6 witness: vendor Amd with pacman: `pacman -S --noconfirm radeontop` ran
C6_Witness ==
    \E i \in DOMAIN trace :
        /\ IsInstall(trace[i])
        /\ trace[i].argv = <<"pacman", "-S", "--noconfirm", "radeontop">>
        /\ gpu_type = Some("Amd")

\* the polling invocations of the interface table, one element per argument
ExpectedPollArgv(g) ==
    CASE g = "Nvidia" -> <<"nvidia-smi", "--query-gpu=utilization.gpu",
                           "--format=csv,noheader,nounits">>
      [] g = "Amd"    -> <<"radeontop", "-d", "-">>
      [] g = "Intel"  -> <<"intel_gpu_top", "-s", "1", "-o", "-">>

\* C7: every poll tick spawns the vendor's monitoring binary with the
\* vendor's polling invocation as an argument list: radeontop gets the two
\* arguments `-d` and `-`, intel_gpu_top the four `-s`, `1`, `-o`, `-`.
\* (The code passes "-d -", "-s 1" and "-o -" as single arguments.)
C7_PollInvocationArgumentList ==
    \A i \in DOMAIN trace :
        IsMonitor(trace[i]) => trace[i].argv = ExpectedPollArgv(gpu_type[1])

\* C8: if a tick's captured stdout is not valid UTF-8 the loop ends in that
\* tick with "Not UTF-8" (InvalidOutputEncoding): nothing is printed, there
\* is no sleep and no further spawn, and the process exits non-zero.
C8_InvalidUtf8EndsLoop ==
    \A i \in DOMAIN trace :
        (IsMonitor(trace[i]) /\ trace[i].res.spawned
           /\ ~Utf8Valid(trace[i].res.stdout))
        => /\ i = Len(trace)
           /\ pc = "panicked"
           /\ panic_msg = "Not UTF-8"
           /\ exit_code # None /\ exit_code[1] # 0

\* C8 witness: after a completed tick, a tick whose stdout is not UTF-8
C8_Witness ==
    /\ ticks >= 1
    /\ \E i \in DOMAIN trace :
           /\ IsMonitor(trace[i]) /\ trace[i].res.spawned
           /\ ~Utf8Valid(trace[i].res.stdout)

\* every one of apt, pacman, yum was looked up and did not resolve
NoManagerResolves ==
    \A n \in ManagerBinaries :
        \E i \in DOMAIN trace :
            /\ IsPmProbe(trace[i]) /\ trace[i].argv[2] = n
            /\ ExitedNonZero(trace[i])

\* C9: when the tool is absent and none of apt, pacman, yum resolves,
\* identify_package_manager fails with "Package manager not found"
\* (NoPackageManagerFound) and the run ends: no install and no poll is ever
\* spawned.
C9_NoPackageManagerIsFatal ==
    NoManagerResolves
    => /\ top_exists = Some(FALSE)
       /\ pc = "panicked"
       /\ panic_msg = "Package manager not found"
       /\ package_manager = None
       /\ ~SomeEvent(trace, IsInstall)
       /\ ~SomeEvent(trace, IsMonitor)

\* C9 witness: the three lookups all exited non-zero
C9_Witness == NoManagerResolves

\* the package-manager lookups performed so far, in order
PmProbes == SelectSeq(trace, IsPmProbe)

ProbeOrder == <<"apt", "pacman", "yum">>
KindOrder == <<"Apt", "Pacman", "Yum">>

\* C10: the managers are probed in the order apt, pacman, yum; the result is
\* the first whose lookup exits 0 (every earlier lookup exited non-zero) and
\* no manager after the first one found is probed.
C10_ProbeOrderFirstFound ==
    LET n == Len(PmProbes) IN
    /\ n <= Len(ProbeOrder)
    /\ \A k \in 1..n : PmProbes[k].argv = <<"which", ProbeOrder[k]>>
    /\ \A k \in 1..(n - 1) : ExitedNonZero(PmProbes[k])
    /\ package_manager # None
       => ExitedZero(PmProbes[n]) /\ package_manager = Some(KindOrder[n])
    /\ (n > 0 /\ ExitedZero(PmProbes[n]))
       => package_manager = Some(KindOrder[n])

\* C10 witness: apt and pacman did not resolve, yum did, and Yum was returned
C10_Witness ==
    /\ package_manager = Some("Yum")
    /\ Len(PmProbes) = Len(ProbeOrder)


\* the monitoring binary the interface table gives each vendor
BinaryOf(g) ==
    CASE g = "Nvidia" -> "nvidia-smi"
      [] g = "Amd"    -> "radeontop"
      [] g = "Intel"  -> "intel_gpu_top"

\* C11: the tool registry is total and injective on binaries: each vendor
\* has exactly one monitoring binary (nvidia-smi, radeontop, intel_gpu_top),
\* the one that is looked up and the one that is polled, and exactly one
\* install package whatever the manager; no two vendors share a binary, and
\* the run's lookups, installs and polls use its vendor's entry.
C11_RegistryTotalInjective ==
    /\ \A g \in GpuType :
           /\ check_top_argv(g)[2] = BinaryOf(g)
           /\ poll_argv(g)[1] = BinaryOf(g)
           /\ Cardinality({install_argv(g, pm)[4] : pm \in PackageManager}) = 1
    /\ \A g1, g2 \in GpuType :
           g1 # g2 => /\ check_top_argv(g1)[2] # check_top_argv(g2)[2]
                      /\ poll_argv(g1)[1] # poll_argv(g2)[1]
    /\ \A i \in DOMAIN trace :
           /\ IsPresenceCheck(trace[i]) => trace[i].argv[2] = BinaryOf(gpu_type[1])
           /\ IsMonitor(trace[i]) => trace[i].argv[1] = BinaryOf(gpu_type[1])

\* C11 witness: vendor Intel; its binary was looked up, then polled
C11_Witness ==
    /\ gpu_type = Some("Intel")
    /\ \E i, j \in DOMAIN trace :
           /\ IsPresenceCheck(trace[i]) /\ trace[i].argv[2] = "intel_gpu_top"
           /\ IsMonitor(trace[j]) /\ trace[j].argv[1] = "intel_gpu_top"


Polling == pc \in {"poll", "sleep"}

\* the last event is a monitoring spawn that failed or wrote invalid UTF-8
LastSpawnAborts(t) ==
    /\ t # << >>
    /\ IsMonitor(t[Len(t)])
    /\ ~t[Len(t)].res.spawned \/ ~Utf8Valid(t[Len(t)].res.stdout)

\* C12: the poller runs forever: once polling is reached the process has no
\* exit status other than a panic's, the only step out of the polling state
\* is the abort of a tick whose spawn failed or whose stdout did not decode,
\* and (for the first MaxTicks ticks) every tick is eventually followed by
\* the next one unless it aborts.
C12_PollerRunsForever ==
    /\ [](Polling => exit_code = None)
    /\ [][Polling =>
            \/ Polling'
            \/ pc = "poll" /\ pc' = "panicked" /\ LastSpawnAborts(trace')]_vars
    /\ \A k \in 0..(MaxTicks - 1) :
           (pc = "poll" /\ ticks = k) ~> (ticks = k + 1 \/ pc = "panicked")

\* C12 witness: two ticks have completed and the loop is at its third
C12_Witness ==
    /\ pc = "poll"
    /\ ticks = 2
    /\ Len(SelectSeq(trace, IsMonitor)) = 2


\* C13: if the monitoring binary cannot be spawned in a tick (the first one
\* after an install included) the loop ends at once with "Failed to execute
\* command": no retry, nothing printed for the tick, no sleep, no later tick.
C13_PollSpawnFailureEndsLoop ==
    \A i \in DOMAIN trace :
        (IsMonitor(trace[i]) /\ ~trace[i].res.spawned)
        => /\ i = Len(trace)
           /\ pc = "panicked"
           /\ panic_msg = "Failed to execute command"
           /\ exit_code = Some(PanicExitCode)

\* C13 witness: an install ran and the first spawn of the tool failed
C13_Witness ==
    /\ SomeEvent(trace, IsInstall)
    /\ Len(SelectSeq(trace, IsMonitor)) = 1
    /\ IsMonitor(trace[Len(trace)])
    /\ ~trace[Len(trace)].res.spawned


NumSleeps == Len(SelectSeq(trace, IsSleep))

\* C14: ticks are strictly sequential.  A tick is the monitoring spawn (which
\* blocks until the subprocess exits), then one utilization line, then one
\* 1-second sleep, in that order and adjacent in the run; the next spawn
\* comes only after that sleep has returned, so every sleep but one in
\* progress has completed before anything else happens.
C14_TicksSequential ==
    /\ \A i \in DOMAIN trace :
           /\ (IsMonitor(trace[i]) /\ i < Len(trace))
              => /\ i + 2 <= Len(trace)
                 /\ IsUtilizationLine(trace[i + 1])
                 /\ IsSleep(trace[i + 2]) /\ trace[i + 2].secs = 1
                 /\ i + 3 <= Len(trace) => IsMonitor(trace[i + 3])
           /\ IsUtilizationLine(trace[i]) => (i > 1 /\ IsMonitor(trace[i - 1]))
           /\ IsSleep(trace[i]) => (i > 1 /\ IsUtilizationLine(trace[i - 1]))
    /\ pc = "sleep" => IsSleep(trace[Len(trace)])
    /\ NumSleeps = ticks + (IF pc = "sleep" THEN 1 ELSE 0)
    /\ Len(SelectSeq(trace, IsMonitor)) \in {NumSleeps, NumSleeps + 1}

\* C14 witness: the second tick's spawn, after the first tick's line and sleep
C14_Witness ==
    /\ pc = "sleep"
    /\ ticks = 1
    /\ Len(SelectSeq(trace, IsMonitor)) = 2
    /\ NumSleeps = 2


\* the outcome of the PCI enumeration (the second event of every run)
LspciRes == trace[2].res

NoVendorString(text) ==
    /\ ~contains(text, StrNVIDIA)
    /\ ~contains(text, StrAMD)
    /\ ~contains(text, StrIntel)

\* the run stopped inside identify_gpu_card: lspci is its only subprocess
StoppedAtDetection ==
    /\ pc = "panicked"
    /\ exit_code = Some(PanicExitCode)
    /\ gpu_type = None /\ top_exists = None /\ package_manager = None
    /\ Len(SelectSeq(trace, IsSpawn)) = 1

\* C15: vendor detection has three distinct fatal outcomes, each stopping
\* the run before any later step: lspci cannot be spawned ("Failed to
\* execute command", ToolExecutionFailed); its output is not UTF-8 ("Not
\* UTF-8", InvalidOutputEncoding, whatever substrings the bytes hold); valid
\* output with none of "NVIDIA", "AMD", "Intel" ("GPU not found",
\* UnsupportedHardware).
C15_DetectionFailuresAreFatal ==
    trace # << >> =>
        /\ IsLspci(trace[2])
        /\ ~LspciRes.spawned
           => StoppedAtDetection /\ panic_msg = "Failed to execute command"
        /\ (LspciRes.spawned /\ ~Utf8Valid(LspciRes.stdout))
           => StoppedAtDetection /\ panic_msg = "Not UTF-8"
        /\ (LspciRes.spawned /\ Utf8Valid(LspciRes.stdout)
              /\ NoVendorString(from_utf8(LspciRes.stdout)))
           => StoppedAtDetection /\ panic_msg = "GPU not found"

\* C15 witness: the output holds "NVIDIA" and a byte that is not UTF-8
C15_Witness ==
    /\ trace # << >>
    /\ LspciRes.stdout = StrNVIDIA \o <<255>>
    /\ panic_msg = "Not UTF-8"


\* C16: a run holds at most one GpuVendor and at most one
\* PackageManagerKind, neither changes once set, a PackageManagerKind exists
\* only if the presence check returned false, and every tick polls the tool
\* of the vendor determined (and printed) at startup.
C16_VendorAndManagerSetOnce ==
    /\ [](/\ Len(gpu_type) <= 1 /\ Len(package_manager) <= 1
          /\ package_manager # None
             => /\ top_exists = Some(FALSE)
                /\ \E i \in DOMAIN trace :
                       IsPresenceCheck(trace[i]) /\ ExitedNonZero(trace[i])
          /\ gpu_type # None => trace[3].arg = gpu_type[1]
          /\ \A i \in DOMAIN trace :
                 IsMonitor(trace[i])
                 => trace[i].argv[1] = BinaryOf(trace[3].arg))
    /\ [][/\ gpu_type # None => gpu_type' = gpu_type
          /\ package_manager # None => package_manager' = package_manager]_vars

\* C16 witness: a manager was identified and two ticks polled the vendor's tool
C16_Witness ==
    /\ gpu_type = Some("Amd")
    /\ package_manager = Some("Pacman")
    /\ Len(SelectSeq(trace, IsMonitor)) = 2


\* the subprocesses spawned so far, in order
Spawns == SelectSeq(trace, IsSpawn)

\* what may come right after spawn a: b continues the pipeline
\* lspci, presence lookup, manager lookups, install, polls
MayFollow(a, b) ==
    \/ IsLspci(a) /\ a.res.spawned /\ IsPresenceCheck(b)
    \/ IsPresenceCheck(a) /\ ExitedNonZero(a)
         /\ IsPmProbe(b) /\ b.argv[2] = "apt"
    \/ IsPmProbe(a) /\ ExitedNonZero(a) /\ IsPmProbe(b)
         /\ <<a.argv[2], b.argv[2]>> \in {<<"apt", "pacman">>, <<"pacman", "yum">>}
    \/ IsPmProbe(a) /\ ExitedZero(a) /\ IsInstall(b) /\ b.argv[1] = a.argv[2]
    \/ IsPresenceCheck(a) /\ ExitedZero(a) /\ IsMonitor(b)
    \/ IsInstall(a) /\ a.res.spawned /\ IsMonitor(b)
    \/ IsMonitor(a) /\ a.res.spawned /\ IsMonitor(b)

\* C17: the spawns of a run are a prefix of: one PCI enumeration, one
\* presence lookup, then (only if absent) the lookups of apt, pacman, yum up
\* to the first that succeeds, one install with that manager, then only
\* monitoring spawns.  Nothing is repeated or revisited: one install at
\* most, and no presence lookup between the install and the first poll.
C17_SpawnSequence ==
    LET n == Len(Spawns) IN
    /\ n >= 1 => IsLspci(Spawns[1])
    /\ \A k \in 1..(n - 1) : MayFollow(Spawns[k], Spawns[k + 1])
    /\ Len(SelectSeq(trace, IsLspci)) <= 1
    /\ Len(SelectSeq(trace, IsPresenceCheck)) <= 1
    /\ Len(SelectSeq(trace, IsInstall)) <= 1

\* C17 witness: lspci, which radeontop, which apt, which pacman, the pacman
\* install, and two polls
C17_Witness ==
    /\ Len(Spawns) = 7
    /\ IsInstall(Spawns[5]) /\ Spawns[5].argv[1] = "pacman"
    /\ IsMonitor(Spawns[7])


\* C18: the monitoring subprocess's exit status is not an abort condition: a
\* tick whose subprocess exits non-zero with valid UTF-8 (possibly empty)
\* stdout still prints `GPU Utilization: <trimmed stdout>%`, sleeps, and the
\* loop goes on.
C18_ExitStatusIgnoredByPoll ==
    \A i \in DOMAIN trace :
        (IsMonitor(trace[i]) /\ ExitedNonZero(trace[i])
           /\ Utf8Valid(trace[i].res.stdout))
        => /\ i + 2 <= Len(trace)
           /\ IsUtilizationLine(trace[i + 1])
           /\ trace[i + 1].text = trim(from_utf8(trace[i].res.stdout))
           /\ trace[i].res.stdout = << >> => trace[i + 1].text = << >>
           /\ trace[i].res.stdout = <<194, 160, 57, 10>>
              => trace[i + 1].text = <<57>>
           /\ IsSleep(trace[i + 2])
           /\ i + 2 = Len(trace) => (pc \in {"sleep", "poll"} /\ panic_msg = "")

\* C18 witness: a tick exited non-zero with empty stdout, and the next tick
\* was spawned
C18_Witness ==
    \E i \in DOMAIN trace :
        /\ IsMonitor(trace[i]) /\ ExitedNonZero(trace[i])
        /\ trace[i].res.stdout = << >>
        /\ i + 3 <= Len(trace) /\ IsMonitor(trace[i + 3])


\* the tool name an event of the run carries: the name looked up, the
\* package installed (the last argument), the binary polled
ToolNameIn(e) ==
    CASE IsPresenceCheck(e) -> e.argv[2]
      [] IsInstall(e)       -> e.argv[Len(e.argv)]
      [] IsMonitor(e)       -> e.argv[1]

CarriesToolName(e) == IsPresenceCheck(e) \/ IsInstall(e) \/ IsMonitor(e)

\* where the presence lookup stands in a run that reaches it: after the
\* println, the lspci spawn and the two println that precede it
PresenceAt == 5

\* C19: one name is used across the run: the name the presence check looks
\* up, the package passed to the installer and the binary the loop spawns
\* are identical, so the tool polled is the tool that was checked or
\* installed.
C19_SameToolNameThroughout ==
    \A i \in DOMAIN trace :
        CarriesToolName(trace[i])
        => /\ IsPresenceCheck(trace[PresenceAt])
           /\ ToolNameIn(trace[i]) = ToolNameIn(trace[PresenceAt])
           /\ ToolNameIn(trace[i]) \in ToolBinaries

\* C19 witness: radeontop was looked up, installed and then polled
C19_Witness ==
    \E i, j, k \in DOMAIN trace :
        /\ IsPresenceCheck(trace[i]) /\ IsInstall(trace[j]) /\ IsMonitor(trace[k])
        /\ ToolNameIn(trace[i]) = "radeontop"
        /\ ToolNameIn(trace[j]) = "radeontop"
        /\ ToolNameIn(trace[k]) = "radeontop"

====
